---- MODULE Spec2Model ----
(***************************************************************************)
(* gst_tally_override: Tally-style per-item GST for Sales Invoices.        *)
(*                                                                         *)
(* Representation.                                                         *)
(*  - Money is held in hundredths of a currency unit (paise): the Python   *)
(*    float 90.00 is the integer 9000.  Quantities and percentages are     *)
(*    integers; an item rate is in paise.  Arithmetic is exact: binary     *)
(*    floating point error of the Python floats is not modelled.           *)
(*  - A value n handed to round_half is the rational num/den currency      *)
(*    units.                                                               *)
(*  - Free text that the code slices or searches (registration ids, tax    *)
(*    row labels) is a sequence of one-character strings.  None and ""     *)
(*    are both the empty sequence: the code only tests them for truth.     *)
(***************************************************************************)
EXTENDS Integers, Sequences, FiniteSets, TLC

VARIABLES
    doc,       \* header fields of the Sales Invoice being validated
    items,     \* doc.items: the line items, in document order
    taxes,     \* doc.taxes: the tax rows, in document order
    flags,     \* doc.flags: the names of the flags that are set
    calc,      \* doc.calculate_taxes_and_totals: "host" or "dummy"
    pc,        \* position of the validation pass
    path,      \* the override function on_validate dispatched to
    outcome,   \* how the last on_before_submit ended
    ic_txn,    \* the india_compliance module namespace
    lastCall,  \* the last call made through an ic_txn entry point
    probe      \* the last direct call of a helper function and its result

vars == <<doc, items, taxes, flags, calc, pc, path, outcome, ic_txn, lastCall, probe>>

docVars == <<doc, items, taxes, flags, calc, pc, path, outcome>>

(***************************************************************************)
(* Bounds of the model.                                                    *)
(***************************************************************************)
MaxItems == 2

MaxGstinLen == 3

MaxQty == 3

(***************************************************************************)
(* Generic helpers.                                                        *)
(***************************************************************************)
Abs(n) == IF n < 0 THEN -n ELSE n

\* Python int(): truncation toward zero of the rational num/den, den > 0.
Trunc(num, den) == IF num >= 0 THEN num \div den ELSE -((-num) \div den)

\* frappe.utils.floor of an amount in paise, as whole currency units.
floor(n) == n \div 100

RECURSIVE SumSeq(_)
SumSeq(s) == IF s = <<>> THEN 0 ELSE Head(s) + SumSeq(Tail(s))

SeqsUpTo(S, n) == UNION {[1..k -> S] : k \in 0..n}

\* Python "pat in s" on strings.
Contains(s, pat) ==
    \E i \in 1..(Len(s) - Len(pat) + 1) : SubSeq(s, i, i + Len(pat) - 1) = pat

LowerChar(c) ==
    CASE c = "C" -> "c" [] c = "G" -> "g" [] c = "S" -> "s" [] c = "T" -> "t"
      [] c = "I" -> "i" [] c = "U" -> "u" [] c = "F" -> "f" [] c = "R" -> "r"
      [] OTHER -> c

\* str.lower()
Lower(s) == [i \in 1..Len(s) |-> LowerChar(s[i])]

\* s[:2]
Prefix2(s) == SubSeq(s, 1, IF Len(s) < 2 THEN Len(s) ELSE 2)

(***************************************************************************)
(* Rounding helpers.                                                       *)
(***************************************************************************)
decimals == 2

multiplier == 10 ^ decimals

\* A plausible slip: the negative branch is missing, so 0.5 is always added.
round_half_NoNegativeBranch(num, den) ==
    Trunc(2 * num * multiplier + den, 2 * den)

\* round_half(n, 2) for n = num/den currency units; the result in paise.
round_half(num, den) ==
    IF num < 0
    THEN Trunc(2 * num * multiplier - den, 2 * den)
    ELSE Trunc(2 * num * multiplier + den, 2 * den)

\* round_half_up(n) for n in paise; the result in whole currency units.
round_half_up(n) ==
    LET int_n == Trunc(n, 100)
        decimal_part == n - int_n * 100
    IN IF n >= 0
       THEN (IF decimal_part >= 50 THEN int_n + 1 ELSE int_n)
       ELSE (IF decimal_part <= -50 THEN int_n - 1 ELSE int_n)

(***************************************************************************)
(* Master data read through frappe (the fixtures of the test suite, plus   *)
(* records that exercise the lookups' failure branches).                   *)
(***************************************************************************)
ItemCodes == {"GST-ITEM-18", "GST-ITEM-5", "ITEM-NOTPL", "ITEM-ZERO", "ITEM-GONE", "ITEM-BADTPL"}

\* frappe.get_cached_doc("Item", item_code): exists = FALSE is DoesNotExistError.
\* taxes lists the item_tax_template of each row of the item's taxes table.
ItemMaster(item_code) ==
    CASE item_code = "GST-ITEM-18" -> [exists |-> TRUE, taxes |-> <<"GST-18%-TEST">>]
      [] item_code = "GST-ITEM-5"  -> [exists |-> TRUE, taxes |-> <<"GST-5%", "GST-18%-TEST">>]
      [] item_code = "ITEM-NOTPL"  -> [exists |-> TRUE, taxes |-> <<>>]
      [] item_code = "ITEM-ZERO"   -> [exists |-> TRUE, taxes |-> <<"GST-0%">>]
      [] item_code = "ITEM-BADTPL" -> [exists |-> TRUE, taxes |-> <<"GST-DELETED">>]
      [] OTHER                     -> [exists |-> FALSE, taxes |-> <<>>]

\* frappe.get_cached_doc("Item Tax Template", name); gst_rate in percent.
TemplateMaster(template_name) ==
    CASE template_name = "GST-18%-TEST" -> [exists |-> TRUE, gst_rate |-> 18]
      [] template_name = "GST-5%"       -> [exists |-> TRUE, gst_rate |-> 5]
      [] template_name = "GST-0%"       -> [exists |-> TRUE, gst_rate |-> 0]
      [] OTHER                          -> [exists |-> FALSE, gst_rate |-> 0]

\* frappe.get_cached_value("Company", company, "gstin"): raises = TRUE is the
\* lookup error of an unknown company.
CompanyMaster(company) ==
    CASE company = "K95 Foods Private Limited" ->
            [raises |-> FALSE, gstin |-> <<"0", "7", "A">>]
      [] company = "Unregistered Co" -> [raises |-> FALSE, gstin |-> <<>>]
      [] OTHER -> [raises |-> TRUE, gstin |-> <<>>]

(***************************************************************************)
(* GST rate lookup functions.                                              *)
(***************************************************************************)
\* The template name, or "" for None.
get_item_tax_template_name(item_code) ==
    LET item_doc == ItemMaster(item_code)
    IN IF ~item_doc.exists THEN ""
       ELSE IF item_doc.taxes # <<>> THEN item_doc.taxes[1]
       ELSE ""

get_gst_rate_from_template(template_name) ==
    IF template_name = "" THEN 0
    ELSE LET template == TemplateMaster(template_name)
         IN IF ~template.exists THEN 0 ELSE template.gst_rate

\* A plausible slip: the test for a missing id is left out.
check_if_inter_state_NoBlankCheck(lookup, billing_address_gstin, customer_gstin) ==
    LET company_gstin == lookup.gstin
        customer == IF billing_address_gstin # <<>> THEN billing_address_gstin
                    ELSE customer_gstin
    IN IF lookup.raises THEN [raised |-> FALSE, value |-> TRUE]
       ELSE [raised |-> FALSE, value |-> Prefix2(company_gstin) # Prefix2(customer)]

\* check_if_inter_state; lookup is what frappe.get_cached_value does for the
\* document's company.  raised: an exception leaves the function; value: the
\* returned flag (TRUE inter-state).
check_if_inter_state(lookup, billing_address_gstin, customer_gstin) ==
    LET company_gstin == lookup.gstin
        customer == IF billing_address_gstin # <<>> THEN billing_address_gstin
                    ELSE customer_gstin
    IN IF lookup.raises THEN [raised |-> FALSE, value |-> TRUE]
       ELSE IF company_gstin = <<>> \/ customer = <<>>
            THEN [raised |-> FALSE, value |-> TRUE]
       ELSE [raised |-> FALSE, value |-> Prefix2(company_gstin) # Prefix2(customer)]

\* check_if_inter_state(invoice_doc) as the document functions call it.
IsInterState(d) ==
    check_if_inter_state(CompanyMaster(d.company), d.billing_address_gstin,
                         d.customer_gstin).value

\* get_item_gst_rate: <<gst_rate, is_inter_state>>.
get_item_gst_rate(item, d) ==
    LET template_name == get_item_tax_template_name(item.item_code)
    IN IF template_name = "" THEN <<0, TRUE>>
       ELSE <<get_gst_rate_from_template(template_name), IsInterState(d)>>

\* A plausible slip: the intra-state branch applies the full rate to each half.
calculate_item_gst_amounts_NoHalving(item, d) ==
    LET template_name == get_item_tax_template_name(item.item_code)
        gst_rate == get_gst_rate_from_template(template_name)
        n == item.qty * item.rate * gst_rate
    IN IF template_name = "" \/ gst_rate = 0
       THEN [cgst_amount |-> 0, sgst_amount |-> 0, igst_amount |-> 0]
       ELSE IF IsInterState(d)
       THEN [cgst_amount |-> 0, sgst_amount |-> 0,
             igst_amount |-> round_half(n, 100 * 100)]
       ELSE [cgst_amount |-> round_half(n, 100 * 100),
             sgst_amount |-> round_half(n, 100 * 100),
             igst_amount |-> 0]

\* A plausible slip: both kinds are filled whatever the jurisdiction.
calculate_item_gst_amounts_BothKinds(item, d) ==
    LET template_name == get_item_tax_template_name(item.item_code)
        gst_rate == get_gst_rate_from_template(template_name)
        n == item.qty * item.rate * gst_rate
    IN IF template_name = "" \/ gst_rate = 0
       THEN [cgst_amount |-> 0, sgst_amount |-> 0, igst_amount |-> 0]
       ELSE [cgst_amount |-> round_half(n, 2 * 100 * 100),
             sgst_amount |-> round_half(n, 2 * 100 * 100),
             igst_amount |-> round_half(n, 100 * 100)]

\* calculate_item_gst_amounts.  item.rate is in paise, so qty * rate * gst_rate / 100
\* currency units is n / (100 * 100); half_rate = gst_rate / 2 doubles the
\* denominator.
calculate_item_gst_amounts(item, d) ==
    LET template_name == get_item_tax_template_name(item.item_code)
        gst_rate == get_gst_rate_from_template(template_name)
        n == item.qty * item.rate * gst_rate
    IN IF template_name = "" \/ gst_rate = 0
       THEN [cgst_amount |-> 0, sgst_amount |-> 0, igst_amount |-> 0]
       ELSE IF IsInterState(d)
       THEN [cgst_amount |-> 0, sgst_amount |-> 0,
             igst_amount |-> round_half(n, 100 * 100)]
       ELSE [cgst_amount |-> round_half(n, 2 * 100 * 100),
             sgst_amount |-> round_half(n, 2 * 100 * 100),
             igst_amount |-> 0]

(***************************************************************************)
(* Document aggregation: the body shared by apply_normal_invoice_override  *)
(* and apply_credit_note_override.                                         *)
(***************************************************************************)
\* STEP 1 of apply_credit_note_override: the three amounts of one line.
SetItemAmounts(item, d) ==
    LET gst_amounts == calculate_item_gst_amounts(item, d)
    IN [item EXCEPT !.cgst_amount = gst_amounts.cgst_amount,
                    !.sgst_amount = gst_amounts.sgst_amount,
                    !.igst_amount = gst_amounts.igst_amount]

\* STEP 1 of apply_normal_invoice_override: the amounts and the three rates
\* (rates in hundredths of a percent, so that gst_rate / 2.0 is exact).
SetItemAmountsAndRates(item, d) ==
    LET r == get_item_gst_rate(item, d)
        gst_rate == r[1] * 100
        is_inter_state == r[2]
        half == gst_rate \div 2
    IN [SetItemAmounts(item, d) EXCEPT
            !.igst_rate = IF is_inter_state THEN gst_rate ELSE 0,
            !.cgst_rate = IF is_inter_state THEN 0 ELSE half,
            !.sgst_rate = IF is_inter_state THEN 0 ELSE half]

\* STEP 2: sum(float(getattr(i, field, 0) or 0) for i in doc.items)
TotalOf(its, field) == SumSeq([i \in 1..Len(its) |-> its[i][field]])

\* tt of a tax row: ((gst_tax_type or "") or (account_head or "")).lower()
TaxLabel(tax) ==
    Lower(IF tax.gst_tax_type # <<>> THEN tax.gst_tax_type ELSE tax.account_head)

\* The if / elif / elif chain of STEP 5: which running total a row is given.
TaxKind(tax) ==
    LET tt == TaxLabel(tax)
    IN IF Contains(tt, <<"c", "g", "s", "t">>) THEN "cgst"
       ELSE IF Contains(tt, <<"s", "g", "s", "t">>)
               \/ Contains(tt, <<"u", "t", "g", "s", "t">>) THEN "sgst"
       ELSE IF Contains(tt, <<"i", "g", "s", "t">>) THEN "igst"
       ELSE "none"

\* A plausible slip (copy and paste): the sgst branch assigns the igst total.
PushTaxRow_SgstGetsIgst(tax, running_total, total_cgst, total_sgst, total_igst) ==
    LET kind == TaxKind(tax)
        amount == CASE kind = "cgst" -> total_cgst
                    [] kind = "sgst" -> total_igst
                    [] kind = "igst" -> total_igst
                    [] OTHER -> 0
        new_total == running_total + amount
        flagged == [tax EXCEPT !.dont_recompute_tax = 1]
        assigned == IF kind = "none" THEN flagged
                    ELSE [flagged EXCEPT
                            !.tax_amount = amount,
                            !.base_tax_amount = amount,
                            !.tax_amount_after_discount_amount = amount,
                            !.base_tax_amount_after_discount_amount = amount]
    IN <<[assigned EXCEPT !.total = new_total, !.base_total = new_total], new_total>>

\* A plausible slip: the running total is not carried on, so each row's total
\* is the base total plus its own amount only.
PushTaxRow_TotalNotCumulative(tax, running_total, total_cgst, total_sgst, total_igst) ==
    LET kind == TaxKind(tax)
        amount == CASE kind = "cgst" -> total_cgst
                    [] kind = "sgst" -> total_sgst
                    [] kind = "igst" -> total_igst
                    [] OTHER -> 0
        new_total == running_total + amount
        flagged == [tax EXCEPT !.dont_recompute_tax = 1]
        assigned == IF kind = "none" THEN flagged
                    ELSE [flagged EXCEPT
                            !.tax_amount = amount,
                            !.base_tax_amount = amount,
                            !.tax_amount_after_discount_amount = amount,
                            !.base_tax_amount_after_discount_amount = amount]
    IN <<[assigned EXCEPT !.total = new_total, !.base_total = new_total], running_total>>

\* One iteration of the STEP 5 loop: <<the row as written, the new running total>>.
PushTaxRow(tax, running_total, total_cgst, total_sgst, total_igst) ==
    LET kind == TaxKind(tax)
        amount == CASE kind = "cgst" -> total_cgst
                    [] kind = "sgst" -> total_sgst
                    [] kind = "igst" -> total_igst
                    [] OTHER -> 0
        new_total == running_total + amount
        flagged == [tax EXCEPT !.dont_recompute_tax = 1]
        assigned == IF kind = "none" THEN flagged
                    ELSE [flagged EXCEPT
                            !.tax_amount = amount,
                            !.base_tax_amount = amount,
                            !.tax_amount_after_discount_amount = amount,
                            !.base_tax_amount_after_discount_amount = amount]
    IN <<[assigned EXCEPT !.total = new_total, !.base_total = new_total], new_total>>

\* The STEP 5 loop over doc.taxes in document order.
RECURSIVE PushTaxRows(_, _, _, _, _)
PushTaxRows(rows, running_total, total_cgst, total_sgst, total_igst) ==
    IF rows = <<>> THEN <<>>
    ELSE LET r == PushTaxRow(Head(rows), running_total, total_cgst, total_sgst, total_igst)
         IN <<r[1]>> \o PushTaxRows(Tail(rows), r[2], total_cgst, total_sgst, total_igst)

\* item.get("hsn_code") or item.get("gst_hsn_code") or ""
HsnOf(item) == IF item.hsn_code # "" THEN item.hsn_code ELSE item.gst_hsn_code

\* rebuild_item_wise_tax_detail_from_item_fields: the dict that json.dumps
\* serialises, as the set of its <<item_code, hsn, value>> entries.  A key
\* that repeats keeps the value of its last line.
rebuild_item_wise_tax_detail_from_item_fields(its) ==
    LET last == {i \in 1..Len(its) :
                    \A j \in (i + 1)..Len(its) :
                        <<its[j].item_code, HsnOf(its[j])>> # <<its[i].item_code, HsnOf(its[i])>>}
    IN [kind |-> "json",
        entries |-> {<<its[i].item_code, HsnOf(its[i]),
                       <<its[i].net_amount, its[i].cgst_amount, its[i].sgst_amount,
                         its[i].igst_amount, 0,
                         its[i].cgst_amount + its[i].sgst_amount + its[i].igst_amount>>>> :
                     i \in last}]

\* A plausible slip: int() where floor() is meant, as in round_half_up.
FloorRounded_IntForFloor(base_grand_total) ==
    LET decimal_part == base_grand_total - floor(base_grand_total) * 100
    IN IF decimal_part >= 50 THEN Trunc(base_grand_total, 100) + 1
       ELSE Trunc(base_grand_total, 100)

\* STEP 4: base_rounded_total, in whole currency units.
FloorRounded(base_grand_total) ==
    LET decimal_part == base_grand_total - floor(base_grand_total) * 100
    IN IF decimal_part >= 50 THEN floor(base_grand_total) + 1
       ELSE floor(base_grand_total)

\* STEPS 2, 3, 4 and 6: the header after aggregation over the computed lines.
HeaderTotals(d, its) ==
    LET total_cgst == TotalOf(its, "cgst_amount")
        total_sgst == TotalOf(its, "sgst_amount")
        total_igst == TotalOf(its, "igst_amount")
        total_tax_amount == total_cgst + total_sgst + total_igst
        net == d.net_total
        base_net == d.base_total
        grand_total == net + total_tax_amount
        base_grand_total == base_net + total_tax_amount
        base_rounded_total == FloorRounded(base_grand_total) * 100
        base_rounding_adjustment == base_rounded_total - base_grand_total
    IN [d EXCEPT
          !.total_taxes_and_charges = total_tax_amount,
          !.base_total_taxes_and_charges = total_tax_amount,
          !.grand_total = grand_total,
          !.base_grand_total = base_grand_total,
          !.rounding_adjustment = base_rounding_adjustment,
          !.base_rounding_adjustment = base_rounding_adjustment,
          !.rounded_total = round_half_up(grand_total) * 100,
          !.base_rounded_total = base_rounded_total,
          !.outstanding_amount = base_rounded_total,
          !.item_wise_tax_detail = rebuild_item_wise_tax_detail_from_item_fields(its)]

\* STEP 7: the flags that block recalculation.
LockFlags == {"ignore_validate_update_after_submit", "dont_update_if_missing",
              "dont_recalculate_taxes"}

(***************************************************************************)
(* The documents handed to the hooks.                                      *)
(***************************************************************************)
\* A line as the host holds it before validation: no tax fields yet.
ItemLine(item_code, qty, rate) ==
    [item_code |-> item_code, qty |-> qty, rate |-> rate, net_amount |-> qty * rate,
     hsn_code |-> "", gst_hsn_code |-> "2106",
     cgst_amount |-> 0, sgst_amount |-> 0, igst_amount |-> 0,
     cgst_rate |-> 0, sgst_rate |-> 0, igst_rate |-> 0]

\* The lines of the validated documents: the test's line (qty 1 at 1000.00,
\* 18%), return lines whose tax falls on a rounding tie, a line without a
\* template.
ItemLines ==
    {ItemLine("GST-ITEM-18", 1, 100000), ItemLine("GST-ITEM-5", -3, 10),
     ItemLine("ITEM-NOTPL", -1, 50), ItemLine("GST-ITEM-18", -1, 25)}

\* A tax row as appended by the test (rate 0, so no amount yet).
TaxRow(gst_tax_type, account_head, detail) ==
    [gst_tax_type |-> gst_tax_type, account_head |-> account_head,
     tax_amount |-> 0, base_tax_amount |-> 0,
     tax_amount_after_discount_amount |-> 0,
     base_tax_amount_after_discount_amount |-> 0,
     total |-> 0, base_total |-> 0, dont_recompute_tax |-> 0,
     item_wise_tax_detail |-> detail]

CgstRow == TaxRow(<<"c", "g", "s", "t">>, <<"C", "G", "S", "T">>, "")

SgstRow == TaxRow(<<"s", "g", "s", "t">>, <<"S", "G", "S", "T">>, "")

IgstRow == TaxRow(<<>>, <<"I", "G", "S", "T">>, "")

UtgstRow == TaxRow(<<>>, <<"U", "T", "G", "S", "T">>, "")

FreightRow == TaxRow(<<>>, <<"F", "R", "T">>, "")

\* The tax tables of the validated documents.
TaxTables ==
    {<<>>, <<CgstRow, SgstRow>>, <<IgstRow>>, <<CgstRow, SgstRow, IgstRow>>,
     <<FreightRow, UtgstRow, CgstRow>>, <<IgstRow, FreightRow>>}

\* Additional discount taken off the net total by the host.
Discounts == {0, 25}

\* The header as the host holds it before the hook: totals without tax,
\* rounded total disabled.  detail is the stored item_wise_tax_detail.
Header(doctype, docstatus, is_return, return_against, company, billing, customer, its, discount, detail) ==
    LET total == SumSeq([i \in 1..Len(its) |-> its[i].qty * its[i].rate])
    IN [doctype |-> doctype, docstatus |-> docstatus, is_return |-> is_return,
        return_against |-> return_against, company |-> company,
        billing_address_gstin |-> billing, customer_gstin |-> customer,
        net_total |-> total - discount, base_total |-> total,
        total_taxes_and_charges |-> 0, base_total_taxes_and_charges |-> 0,
        grand_total |-> total - discount, base_grand_total |-> total,
        rounding_adjustment |-> 0, base_rounding_adjustment |-> 0,
        rounded_total |-> 0, base_rounded_total |-> 0,
        outstanding_amount |-> total - discount,
        item_wise_tax_detail |-> detail]

NoDetail == [kind |-> "none", entries |-> {}]

MalformedDetail == [kind |-> "malformed", entries |-> {}]

IdleRest ==
    /\ ic_txn = [e \in {} |-> "absent"]
    /\ lastCall = [entry |-> "none"]
    /\ probe = [fn |-> "none"]

Init ==
    /\ \E doctype \in {"Sales Invoice", "Sales Order"}, docstatus \in 0..2,
          is_return \in BOOLEAN, return_against \in {"", "SINV-0001"},
          company \in {"K95 Foods Private Limited", "Ghost Co"},
          billing \in {<<>>, <<"0", "7", "B">>},
          customer \in {<<>>, <<"2", "7", "C">>},
          its \in SeqsUpTo(ItemLines, MaxItems), discount \in Discounts :
            /\ items = its
            /\ doc = Header(doctype, docstatus, is_return, return_against, company,
                            billing, customer, its, discount, NoDetail)
    /\ taxes \in TaxTables
    /\ flags = {}
    /\ calc = "host"
    /\ pc = "idle"
    /\ path = "none"
    /\ outcome = "none"
    /\ IdleRest

(***************************************************************************)
(* Doc hooks.                                                              *)
(***************************************************************************)
\* A plausible slip: on_validate does not stop at a cancelled document.
Dispatch_NoCancelCheck(d) ==
    IF d.is_return /\ d.return_against # "" THEN "credit_note" ELSE "normal"

\* on_validate after the skip flag is set: return, or the override called.
Dispatch(d) ==
    IF d.docstatus = 2 THEN "return"
    ELSE IF d.is_return /\ d.return_against # "" THEN "credit_note"
    ELSE "normal"

\* What STEPS 2 to 8 write, given the lines its computed in STEP 1.
Aggregate(its) ==
    /\ items' = its
    /\ doc' = HeaderTotals(doc, its)
    /\ taxes' = PushTaxRows(taxes, doc.base_total, TotalOf(its, "cgst_amount"),
                            TotalOf(its, "sgst_amount"), TotalOf(its, "igst_amount"))
    /\ flags' = flags \cup {"skip_gst_validations", "ignore_mandatory"} \cup LockFlags
    /\ calc' = "dummy"

apply_normal_invoice_override ==
    IF doc.docstatus = 2 \/ doc.is_return
    THEN /\ flags' = flags \cup {"skip_gst_validations", "ignore_mandatory"}
         /\ UNCHANGED <<doc, items, taxes, calc>>
    ELSE Aggregate([i \in 1..Len(items) |-> SetItemAmountsAndRates(items[i], doc)])

apply_credit_note_override ==
    IF doc.docstatus = 2
    THEN /\ flags' = flags \cup {"skip_gst_validations", "ignore_mandatory"}
         /\ UNCHANGED <<doc, items, taxes, calc>>
    ELSE Aggregate([i \in 1..Len(items) |-> SetItemAmounts(items[i], doc)])

\* on_validate up to the skip flag: the two early returns, or the flag set.
OnValidateEnter ==
    /\ pc = "idle"
    /\ IF doc.doctype # "Sales Invoice" \/ items = <<>> \/ taxes = <<>>
       THEN pc' = "done" /\ UNCHANGED flags
       ELSE pc' = "flagged" /\ flags' = flags \cup {"skip_gst_validations"}
    /\ UNCHANGED <<doc, items, taxes, calc, path, outcome, ic_txn, lastCall, probe>>

\* on_validate returns at a cancelled document.
OnValidateCancelled ==
    /\ pc = "flagged"
    /\ Dispatch(doc) = "return"
    /\ pc' = "done"
    /\ UNCHANGED <<doc, items, taxes, flags, calc, path, outcome, ic_txn, lastCall, probe>>

OnValidateCreditNote ==
    /\ pc = "flagged"
    /\ Dispatch(doc) = "credit_note"
    /\ apply_credit_note_override
    /\ pc' = "done"
    /\ path' = "credit_note"
    /\ UNCHANGED <<outcome, ic_txn, lastCall, probe>>

OnValidateNormal ==
    /\ pc = "flagged"
    /\ Dispatch(doc) = "normal"
    /\ apply_normal_invoice_override
    /\ pc' = "done"
    /\ path' = "normal"
    /\ UNCHANGED <<outcome, ic_txn, lastCall, probe>>

Next ==
    \/ OnValidateEnter
    \/ OnValidateCancelled
    \/ OnValidateCreditNote
    \/ OnValidateNormal

Spec == Init /\ [][Next]_vars

(***************************************************************************)
(* Properties of the validation pass (specification Spec).                 *)
(***************************************************************************)
\* on_validate went past its two early returns.
Eligible == doc.doctype = "Sales Invoice" /\ items # <<>> /\ taxes # <<>>

\* on_validate has returned from an override that ran STEPS 1 to 8.
Computed ==
    /\ pc = "done"
    /\ \/ path = "credit_note"
       \/ path = "normal" /\ ~doc.is_return

LineTax(i) == items[i].cgst_amount + items[i].sgst_amount + items[i].igst_amount

AllLineTax == SumSeq([i \in 1..Len(items) |-> LineTax(i)])

\* TOTALS-LOCKED: line amounts and header totals recomputed, recalculation blocked.
TotalsLocked ==
    /\ \A i \in 1..Len(items) :
          LET a == calculate_item_gst_amounts(items[i], doc)
          IN /\ items[i].cgst_amount = a.cgst_amount
             /\ items[i].sgst_amount = a.sgst_amount
             /\ items[i].igst_amount = a.igst_amount
    /\ doc.total_taxes_and_charges = AllLineTax
    /\ doc.grand_total = doc.net_total + AllLineTax
    /\ doc.item_wise_tax_detail.kind = "json"
    /\ "dont_recalculate_taxes" \in flags
    /\ calc = "dummy"

\* C1 (as claimed): every on_validate on a Sales Invoice with a line and a tax
\* row that is not cancelled sets the skip flag before any path is taken, takes
\* exactly one of the two paths and ends in TOTALS-LOCKED, whatever is_return
\* and return_against are.
C1_EveryPassEndsLocked ==
    /\ pc = "flagged" => "skip_gst_validations" \in flags /\ path = "none"
    /\ (pc = "done" /\ Eligible /\ doc.docstatus # 2) =>
          /\ "skip_gst_validations" \in flags
          /\ path \in {"normal", "credit_note"}
          /\ TotalsLocked

\* C2: after a computation path every tax row classified as a kind holds the
\* sum of that kind's line amounts, and the header tax total is the sum of all
\* line tax amounts.
C2_TaxRowsHoldLineSums ==
    Computed =>
       /\ \A r \in 1..Len(taxes) :
             /\ TaxKind(taxes[r]) = "cgst" =>
                   taxes[r].tax_amount = SumSeq([i \in 1..Len(items) |-> items[i].cgst_amount])
             /\ TaxKind(taxes[r]) = "sgst" =>
                   taxes[r].tax_amount = SumSeq([i \in 1..Len(items) |-> items[i].sgst_amount])
             /\ TaxKind(taxes[r]) = "igst" =>
                   taxes[r].tax_amount = SumSeq([i \in 1..Len(items) |-> items[i].igst_amount])
       /\ doc.total_taxes_and_charges = AllLineTax

\* An intra-state pass over two taxed lines with a cgst and an sgst row.
C2_Witness ==
    /\ Computed
    /\ Len(items) = 2
    /\ \A i \in 1..Len(items) : items[i].cgst_amount # 0
    /\ \E r \in 1..Len(taxes) : TaxKind(taxes[r]) = "sgst" /\ taxes[r].tax_amount # 0
    /\ \E r \in 1..Len(taxes) : TaxKind(taxes[r]) = "cgst" /\ taxes[r].tax_amount # 0

\* C3 (as claimed): after a computation path exactly one of igst_amount or the
\* pair cgst_amount, sgst_amount is non-zero on every line: never both, and
\* never all three zero.
C3_ExactlyOneKindNonZero ==
    Computed =>
       \A i \in 1..Len(items) :
          /\ ~(items[i].igst_amount # 0
               /\ (items[i].cgst_amount # 0 \/ items[i].sgst_amount # 0))
          /\ ~(items[i].igst_amount = 0 /\ items[i].cgst_amount = 0
               /\ items[i].sgst_amount = 0)

\* C3 (amended): after a computation path no line carries a non-zero igst
\* amount together with a non-zero cgst or sgst amount; a line whose item has
\* no template has all three amounts zero.
C3_AtMostOneKindNonZero ==
    Computed =>
       \A i \in 1..Len(items) :
          /\ ~(items[i].igst_amount # 0
               /\ (items[i].cgst_amount # 0 \/ items[i].sgst_amount # 0))
          /\ get_item_tax_template_name(items[i].item_code) = "" =>
                (items[i].igst_amount = 0 /\ items[i].cgst_amount = 0
                 /\ items[i].sgst_amount = 0)

\* A computed inter-state document with a line that carries igst beside a line
\* whose three amounts are all zero.
C3_Witness ==
    /\ Computed
    /\ \E i, j \in 1..Len(items) :
          /\ items[i].igst_amount # 0
          /\ items[j].igst_amount = 0 /\ items[j].cgst_amount = 0

\* C6: on_validate on a cancelled Sales Invoice with lines and tax rows sets
\* flags.skip_gst_validations and changes nothing else.
C6_CancelledOnlySkipFlag ==
    /\ [](pc = "done" /\ Eligible /\ doc.docstatus = 2
             => "skip_gst_validations" \in flags)
    /\ [][(Eligible /\ doc.docstatus = 2) =>
             /\ doc' = doc /\ items' = items /\ taxes' = taxes /\ calc' = calc
             /\ flags' \ {"skip_gst_validations"} = flags \ {"skip_gst_validations"}]_vars

\* on_validate has returned from a cancelled document.
C6_Witness ==
    /\ pc = "done" /\ Eligible /\ doc.docstatus = 2
    /\ flags = {"skip_gst_validations"}

\* C7: after a computation path the rounding adjustment is base_rounded_total
\* minus base_grand_total and is less than one currency unit in magnitude, for
\* positive and negative totals.
C7_RoundingAdjustmentBelowOne ==
    Computed =>
       /\ doc.rounding_adjustment = doc.base_rounded_total - doc.base_grand_total
       /\ Abs(doc.rounding_adjustment) < 100

\* A negative (return) total that is rounded up by half a unit or more.
C7_Witness ==
    /\ Computed
    /\ doc.base_grand_total < 0
    /\ doc.rounding_adjustment >= 50

\* C10: on the return path every line with negative qty and positive rate and
\* percentage has tax amounts that are never positive and that are the
\* negation of the amounts of the same line with qty replaced by |qty|.
C10_ReturnAmountsMirror ==
    (pc = "done" /\ path = "credit_note") =>
       \A i \in 1..Len(items) :
          (/\ items[i].qty < 0
           /\ items[i].rate > 0
           /\ get_item_gst_rate(items[i], doc)[1] > 0) =>
             LET pos == calculate_item_gst_amounts(
                            [items[i] EXCEPT !.qty = Abs(items[i].qty)], doc)
             IN /\ items[i].cgst_amount <= 0 /\ items[i].cgst_amount = -pos.cgst_amount
                /\ items[i].sgst_amount <= 0 /\ items[i].sgst_amount = -pos.sgst_amount
                /\ items[i].igst_amount <= 0 /\ items[i].igst_amount = -pos.igst_amount

\* A return line whose tax is exactly -4.5 paise, rounded away from zero to -5.
C10_Witness ==
    /\ pc = "done" /\ path = "credit_note"
    /\ \E i \in 1..Len(items) :
          /\ items[i].qty = -1 /\ items[i].rate = 25
          /\ items[i].igst_amount = -5

(***************************************************************************)
(* The helper functions called on their own (specification SpecHelpers).   *)
(***************************************************************************)
GstinChars == {"0", "7"}

\* Registration ids, the blank one included.
Gstins == SeqsUpTo(GstinChars, MaxGstinLen)

\* What the company lookup can do: raise, or return an id (blank included).
Lookups ==
    {[raises |-> TRUE, gstin |-> <<>>]} \cup {[raises |-> FALSE, gstin |-> g] : g \in Gstins}

\* Item rates, in paise.
Rates == {0, 10, 25, 100000}

NoDocument ==
    /\ items = <<>>
    /\ taxes = <<>>
    /\ doc = Header("Sales Invoice", 0, FALSE, "", "K95 Foods Private Limited",
                    <<>>, <<>>, <<>>, 0, NoDetail)
    /\ flags = {}
    /\ calc = "host"
    /\ pc = "idle"
    /\ path = "none"
    /\ outcome = "none"

InitHelpers == NoDocument /\ IdleRest

CallCheckIfInterState ==
    /\ probe.fn = "none"
    /\ \E lookup \in Lookups, billing \in Gstins, customer \in Gstins :
          probe' = [fn |-> "check_if_inter_state", lookup |-> lookup,
                    billing_address_gstin |-> billing, customer_gstin |-> customer,
                    result |-> check_if_inter_state(lookup, billing, customer)]
    /\ UNCHANGED <<docVars, ic_txn, lastCall>>

CallCalculateItemGstAmounts ==
    /\ probe.fn = "none"
    /\ \E item_code \in ItemCodes, qty \in (-MaxQty)..MaxQty, rate \in Rates,
          company \in {"K95 Foods Private Limited", "Unregistered Co", "Ghost Co"},
          billing \in {<<>>, <<"0", "7", "B">>, <<"2", "7", "B">>},
          customer \in {<<>>, <<"0", "7", "C">>} :
          LET item == ItemLine(item_code, qty, rate)
              d == [company |-> company, billing_address_gstin |-> billing,
                    customer_gstin |-> customer]
          IN probe' = [fn |-> "calculate_item_gst_amounts", item |-> item, d |-> d,
                       result |-> calculate_item_gst_amounts(item, d)]
    /\ UNCHANGED <<docVars, ic_txn, lastCall>>

NextHelpers ==
    \/ CallCheckIfInterState
    \/ CallCalculateItemGstAmounts

SpecHelpers == InitHelpers /\ [][NextHelpers]_vars

\* The first two characters of a and b are the same characters.
SameFirstTwo(a, b) ==
    \A k \in 1..2 :
       /\ (k <= Len(a)) = (k <= Len(b))
       /\ (k <= Len(a) /\ k <= Len(b)) => a[k] = b[k]

\* C8: check_if_inter_state returns intra-state (FALSE) only when the company
\* id and the recipient id (billing_address_gstin, else customer_gstin) are
\* both non-blank with equal first two characters; it returns inter-state
\* when the prefixes differ, when an id is blank and when the lookup raises,
\* and no exception leaves it.
C8_IntraOnlyOnEqualPrefix ==
    probe.fn = "check_if_inter_state" =>
       LET recipient == IF probe.billing_address_gstin # <<>>
                        THEN probe.billing_address_gstin ELSE probe.customer_gstin
           intra == /\ ~probe.lookup.raises
                    /\ probe.lookup.gstin # <<>>
                    /\ recipient # <<>>
                    /\ SameFirstTwo(probe.lookup.gstin, recipient)
       IN /\ ~probe.result.raised
          /\ probe.result.value = ~intra

\* Intra-state through the customer id, the billing id being blank: two ids
\* that differ after their common state code.
C8_Witness ==
    /\ probe.fn = "check_if_inter_state"
    /\ probe.billing_address_gstin = <<>>
    /\ probe.customer_gstin = <<"0", "7", "0">>
    /\ probe.lookup.gstin = <<"0", "7", "7">>
    /\ probe.result.value = FALSE

\* The integer nearest to num/den (den > 0), a tie going away from zero.
HalfAwayFromZero(num, den) ==
    LET f == num \div den
    IN CHOOSE r \in {f, f + 1} :
          /\ 2 * Abs(r * den - num) <= den
          /\ 2 * Abs(r * den - num) = den => Abs(r * den) > Abs(num)

\* The percentage the master data resolves for an item code.
ResolvedPct(item_code) ==
    CASE item_code = "GST-ITEM-18" -> 18
      [] item_code = "GST-ITEM-5" -> 5
      [] OTHER -> 0

\* C9: a line with a resolved non-zero rate gets igst = round_half(qty * rate
\* * pct / 100, 2) and no cgst or sgst on an inter-state document, and cgst =
\* sgst = round_half(qty * rate * (pct / 2) / 100, 2) and no igst on an
\* intra-state one (qty 1 at 1000.00 and 18%: 90.00 / 90.00 / 0, or 0 / 0 /
\* 180.00); without a template or with rate 0 all three amounts are zero.
C9_AmountsPerJurisdiction ==
    probe.fn = "calculate_item_gst_amounts" =>
       LET pct == ResolvedPct(probe.item.item_code)
           n == probe.item.qty * probe.item.rate * pct
           inter == IsInterState(probe.d)
           example == /\ probe.item.item_code = "GST-ITEM-18"
                      /\ probe.item.qty = 1 /\ probe.item.rate = 100000
       IN /\ pct = 0 =>
                probe.result = [cgst_amount |-> 0, sgst_amount |-> 0, igst_amount |-> 0]
          /\ (pct # 0 /\ inter) =>
                probe.result = [cgst_amount |-> 0, sgst_amount |-> 0,
                                igst_amount |-> HalfAwayFromZero(n, 100)]
          /\ (pct # 0 /\ ~inter) =>
                probe.result = [cgst_amount |-> HalfAwayFromZero(n, 200),
                                sgst_amount |-> HalfAwayFromZero(n, 200),
                                igst_amount |-> 0]
          /\ (example /\ inter) =>
                probe.result = [cgst_amount |-> 0, sgst_amount |-> 0, igst_amount |-> 18000]
          /\ (example /\ ~inter) =>
                probe.result = [cgst_amount |-> 9000, sgst_amount |-> 9000, igst_amount |-> 0]

\* The intra-state line of the test: qty 1 at 1000.00, 18%.
C9_Witness ==
    /\ probe.fn = "calculate_item_gst_amounts"
    /\ probe.item.item_code = "GST-ITEM-18"
    /\ probe.item.qty = 1 /\ probe.item.rate = 100000
    /\ probe.result.cgst_amount = 9000 /\ probe.result.igst_amount = 0

(***************************************************************************)
(* Module load: the india_compliance entry points (specification           *)
(* SpecPatch).  ic_txn.attr gives each name "absent", "orig" or "patched". *)
(***************************************************************************)
\* The five entry points, in the order the module patches them.
EntryPoints ==
    <<"validate_item_wise_tax_detail", "validate_transaction",
      "set_item_wise_tax_breakup", "ItemGSTDetails", "update_gst_details">>

EntryNames == {EntryPoints[i] : i \in 1..Len(EntryPoints)}

\* The assignment that ends a patch block raises NameError: line 42 assigns
\* patched_set_breakup, and the function defined is
\* patched_set_item_wise_tax_breakup.
AssignmentRaises(entry) == entry = "set_item_wise_tax_breakup"

\* The body of the try block from patch block i on: each block is skipped
\* when hasattr fails; an exception ends the block sequence (except: pass).
RECURSIVE PatchFrom(_, _)
PatchFrom(attr, i) ==
    IF i > Len(EntryPoints) THEN attr
    ELSE LET entry == EntryPoints[i]
         IN IF attr[entry] = "absent" THEN PatchFrom(attr, i + 1)
            ELSE IF AssignmentRaises(entry) THEN attr
            ELSE PatchFrom([attr EXCEPT ![entry] = "patched"], i + 1)

\* A patched entry point called with a document: TRUE when the original runs.
PatchedDelegates(doctype, skip_gst_validations) ==
    ~(doctype = "Sales Invoice" /\ skip_gst_validations)

InitPatch ==
    /\ NoDocument
    /\ probe = [fn |-> "none"]
    /\ lastCall = [entry |-> "none"]
    /\ \E importable \in BOOLEAN, exposed \in SUBSET EntryNames :
          /\ ~importable => exposed = {}
          /\ ic_txn = [importable |-> importable, loaded |-> FALSE,
                       attr |-> [e \in EntryNames |->
                                   IF e \in exposed THEN "orig" ELSE "absent"]]

\* Import of gst_tally_override.overrides.sales_invoice_tax.
ModuleLoad ==
    /\ ~ic_txn.loaded
    /\ ic_txn' = [ic_txn EXCEPT
                    !.loaded = TRUE,
                    !.attr = IF ic_txn.importable THEN PatchFrom(ic_txn.attr, 1)
                             ELSE ic_txn.attr]
    /\ UNCHANGED <<docVars, lastCall, probe>>

\* india_compliance calls one of its entry points with a document.
InvokeEntry ==
    /\ ic_txn.loaded
    /\ \E entry \in EntryNames, doctype \in {"Sales Invoice", "Sales Order"},
          skip \in BOOLEAN :
          /\ ic_txn.attr[entry] # "absent"
          /\ lastCall' = [entry |-> entry, doctype |-> doctype, skip |-> skip,
                          delegated |-> IF ic_txn.attr[entry] = "patched"
                                        THEN PatchedDelegates(doctype, skip)
                                        ELSE TRUE]
    /\ UNCHANGED <<docVars, ic_txn, probe>>

NextPatch ==
    \/ ModuleLoad
    \/ InvokeEntry

SpecPatch == InitPatch /\ [][NextPatch]_vars

\* C4 (as claimed): after module load with the third-party module present and
\* exposing all five entry points, each of the five is wrapped: called with a
\* Sales Invoice whose skip flag is set it never calls the original, and in
\* every other case it delegates to the original.
C4_AllFiveWrapped ==
    (/\ ic_txn.loaded
     /\ ic_txn.importable
     /\ \A e \in EntryNames : ic_txn.attr[e] # "absent") =>
        (lastCall.entry # "none" =>
            lastCall.delegated = ~(lastCall.doctype = "Sales Invoice" /\ lastCall.skip))

(***************************************************************************)
(* The submit check (specification SpecSubmit): the host runs validate and *)
(* then before_submit on a document whose docstatus it has set to 1.       *)
(***************************************************************************)
\* A tax row whose item_wise_tax_detail the host has filled.
WithDetail(tax) == [tax EXCEPT !.item_wise_tax_detail = "{}"]

SubmitTaxTables ==
    {<<>>, <<CgstRow, SgstRow>>, <<WithDetail(CgstRow), SgstRow>>, <<WithDetail(IgstRow)>>}

StaleDetail == [kind |-> "json", entries |-> {}]

InitSubmit ==
    /\ \E doctype \in {"Sales Invoice", "Sales Order"}, docstatus \in 0..2,
          is_return \in BOOLEAN, return_against \in {"", "SINV-0001"},
          its \in SeqsUpTo(ItemLines, MaxItems),
          detail \in {NoDetail, MalformedDetail, StaleDetail} :
            /\ items = its
            /\ doc = Header(doctype, docstatus, is_return, return_against,
                            "K95 Foods Private Limited", <<"0", "7", "B">>, <<>>,
                            its, 0, detail)
    /\ taxes \in SubmitTaxTables
    /\ flags = {}
    /\ calc = "host"
    /\ pc = "idle"
    /\ path = "none"
    /\ outcome = "none"
    /\ IdleRest

\* on_before_submit: "ok" (returns), "throw" (frappe.throw of the 'not valid
\* JSON' message) or "TypeError" (json.loads(None), which the except clause
\* for JSONDecodeError does not catch).
on_before_submit(d, rows) ==
    IF d.doctype # "Sales Invoice" THEN "ok"
    ELSE IF \E r \in 1..Len(rows) : rows[r].item_wise_tax_detail # ""
    THEN CASE d.item_wise_tax_detail.kind = "json" -> "ok"
           [] d.item_wise_tax_detail.kind = "malformed" -> "throw"
           [] OTHER -> "TypeError"
    ELSE "ok"

OnBeforeSubmit ==
    /\ pc = "done"
    /\ doc.docstatus = 1
    /\ outcome = "none"
    /\ outcome' = on_before_submit(doc, taxes)
    /\ UNCHANGED <<doc, items, taxes, flags, calc, pc, path, ic_txn, lastCall, probe>>

NextSubmit ==
    \/ Next
    \/ OnBeforeSubmit

SpecSubmit == InitSubmit /\ [][NextSubmit]_vars

\* C5 (as claimed): on_before_submit on a Sales Invoice fails with the 'not
\* valid JSON' error whenever the stored item_wise_tax_detail is present and
\* not parseable, and completes without error in every other case, whatever
\* the tax rows hold.
C5_SubmitFailsIffMalformed ==
    (outcome # "none" /\ doc.doctype = "Sales Invoice") =>
        IF doc.item_wise_tax_detail.kind = "malformed"
        THEN outcome = "throw"
        ELSE outcome = "ok"

(***************************************************************************)
(* Header totals and running row totals after the pass (specification      *)
(* Spec).                                                                  *)
(***************************************************************************)
\* C11 (as claimed): after a computation path grand_total is net_total plus
\* total_taxes_and_charges and base_grand_total is identical to grand_total,
\* for every document.
C11_BaseGrandTotalIsGrandTotal ==
    Computed =>
       /\ doc.grand_total = doc.net_total + doc.total_taxes_and_charges
       /\ doc.base_grand_total = doc.grand_total

\* What a row adds to the running total: its assigned amount, or nothing when
\* its label matches no kind.
RowContribution(r) ==
    IF TaxKind(taxes[r]) = "none" THEN 0 ELSE taxes[r].tax_amount

\* Every row's total and base_total are the header base total plus the
\* contributions of the rows up to and including it, in document order.
RowTotalsAreRunningTotal ==
    \A r \in 1..Len(taxes) :
       LET upto == doc.base_total + SumSeq([j \in 1..r |-> RowContribution(j)])
       IN taxes[r].total = upto /\ taxes[r].base_total = upto

RowTotalsNeverDecrease ==
    \A r \in 1..(Len(taxes) - 1) : taxes[r].total <= taxes[r + 1].total

RowTotalsNeverIncrease ==
    \A r \in 1..(Len(taxes) - 1) : taxes[r].total >= taxes[r + 1].total

\* C12 (as claimed): in both paths the tax rows are walked in document order
\* with a running total that starts at the header base total; each row's
\* total and base_total are the running total after adding the row's own
\* amount (rows matching no kind add nothing), and the sequence of row totals
\* never decreases across rows.
C12_RowTotalsIncrease ==
    Computed => (RowTotalsAreRunningTotal /\ RowTotalsNeverDecrease)

\* C12 (amended): as above, except that the sequence of row totals never
\* decreases when the line tax sums are not negative, and never increases
\* when they are not positive (a return with negative quantities).
C12_RowTotalsFollowSignOfTax ==
    Computed =>
       /\ RowTotalsAreRunningTotal
       /\ AllLineTax >= 0 => RowTotalsNeverDecrease
       /\ AllLineTax <= 0 => RowTotalsNeverIncrease

\* A return whose cgst and sgst rows both take a negative amount, so that the
\* second row's total lies below the first.
C12_Witness ==
    /\ pc = "done" /\ path = "credit_note"
    /\ Len(taxes) >= 2
    /\ TaxKind(taxes[1]) = "cgst" /\ TaxKind(taxes[2]) = "sgst"
    /\ taxes[1].tax_amount < 0
    /\ taxes[2].total < taxes[1].total
    /\ taxes[1].total < doc.base_total

\* C13 (as claimed): after a computation path on a document whose net_total
\* equals its base_total the two header rounding rules agree: rounded_total =
\* base_rounded_total and rounded_total = grand_total + rounding_adjustment,
\* negative totals with a fractional part of exactly one half included.
C13_RoundingRulesAgree ==
    (Computed /\ doc.net_total = doc.base_total) =>
       /\ doc.rounded_total = doc.base_rounded_total
       /\ doc.rounded_total = doc.grand_total + doc.rounding_adjustment

====
